---- MODULE Spec2Model ----
(***************************************************************************)
(* Model of the assessment orchestrator of the App component               *)
(* (src/services/geminiService.ts, lines 311-1266) together with the       *)
(* question-generation and analysis services it calls (lines 107-279).     *)
(*                                                                         *)
(* React state is one variable per useState field.  Every handler is one   *)
(* atomic action: it runs to its first await, React commits the batched    *)
(* state updates, and the timer effect (lines 487-506) is re-run on the    *)
(* committed state.  What follows an await is a separate action that fires *)
(* when the promise settles.                                               *)
(***************************************************************************)
EXTENDS Integers, Sequences, FiniteSets, TLC

----------------------------------------------------------------------------
(* Bounds of the model *)

\* questions requested per section; the source asks for 40 (line 320),
\* the model runs the same code with a shorter section
QUESTIONS_PER_CATEGORY == 2

\* how many times an assessment is started (full, practice or retake)
MaxStarts == 2

\* how many section loads are issued in one behaviour (see WithinBounds)
MaxLoads == 2

\* how many wrong answers the user gives that the ledger holds at one time
MaxWrongAnswers == 1

----------------------------------------------------------------------------
(* Program constants *)

REASONING == "Reasoning"
PERCEPTUAL_SPEED == "Perceptual Speed"
NUMBER_SPEED == "Number Speed & Accuracy"
WORD_MEANING == "Word Meaning"
SPATIAL_VISUALIZATION == "Spatial Visualization"

AssessmentCategory ==
  {REASONING, PERCEPTUAL_SPEED, NUMBER_SPEED, WORD_MEANING, SPATIAL_VISUALIZATION}

FULL_ASSESSMENT_ORDER ==
  <<REASONING, PERCEPTUAL_SPEED, NUMBER_SPEED, WORD_MEANING, SPATIAL_VISUALIZATION>>

TimeLimitSeconds == 5

getTimeLimitForCategory(category) == TimeLimitSeconds

\* values of `analysis`
NullAnalysis == "null"
CollaboratorAnalysis == "result"
MockAnalysis == "placeholder"
EmptyAnalysis == "empty"

getMockAnalysis == MockAnalysis

----------------------------------------------------------------------------
(* Strings *)

\* String.prototype.toLowerCase on the strings the model uses
ToLowerCase(str) ==
  CASE str = "A" -> "a"
    [] str = "B" -> "b"
    [] OTHER -> str

\* the category the user picks for a practice test.  The orchestrator treats
\* the four categories other than Reasoning alike, and Reasoning is the first
\* section of every full assessment
PracticeCategories == {WORD_MEANING}

\* the answers a user can click
Answers == {"a", "B"}

\* correctAnswer of the i-th question (1-based) of a collaborator response
KeyAnswer(i) == IF i % 2 = 1 THEN "A" ELSE "b"

\* data.questions of a collaborator response holding n questions; the
\* collaborator is free to fill in fields the schema does not ask for
RawQuestions(n) ==
  [i \in 1..n |->
     [id |-> <<"raw", 0, 0>>,
      category |-> "raw",
      correctAnswer |-> KeyAnswer(i),
      timeLimitSeconds |-> 30]]

\* the lengths of data.questions a collaborator response can have: empty,
\* one short, as requested
BatchLengths == {0, QUESTIONS_PER_CATEGORY - 1, QUESTIONS_PER_CATEGORY}

\* short responses are explored for the first MaxLoads requests of a
\* behaviour; a request that is no longer the latest one is answered with an
\* empty or a full array
BatchLengthsOf(r, latest) ==
  IF r.id > MaxLoads THEN {QUESTIONS_PER_CATEGORY}
  ELSE IF r.id = latest THEN BatchLengths
  ELSE {0, QUESTIONS_PER_CATEGORY}

\* Math.round(x / y * 100) for integers x >= 0, y > 0; NaN (-1) for y = 0
NaN == 0 - 1
RoundPercent(x, y) == IF y = 0 THEN NaN ELSE (200 * x + y) \div (2 * y)

----------------------------------------------------------------------------
(* State *)

VARIABLES
  phase,                 \* assessmentState.phase
  activeTestQueue,       \* assessmentState.activeTestQueue
  currentCategoryIndex,  \* assessmentState.currentCategoryIndex (0-based)
  currentQuestionIndex,  \* assessmentState.currentQuestionIndex (0-based)
  questions,             \* assessmentState.questions
  responses,             \* assessmentState.responses
  isLoading,             \* assessmentState.isLoading
  reasoningStep,         \* assessmentState.reasoningStep
  analysis,              \* useState analysis
  history,               \* useState history (newest first)
  timeLeft,              \* useState timeLeft
  isTimeoutFlash,        \* useState isTimeoutFlash
  hasTimedOut,           \* useState hasTimedOut
  timers,                \* window.setTimeout callbacks of the timer effect not yet run
  buzzes,                \* playBuzzer calls since timeLeft was last armed
  pendingLoads,          \* generateQuestions promises not yet settled, with their caller
  loadCount,             \* loadSection calls so far
  startCount,            \* start*Assessment calls so far
  pendingAnalyses,       \* the finishAssessment continuations awaiting analyzeResults
  alertShown,            \* the last handler that changed state called alert()
  apiKey,                \* process.env.API_KEY is set
  pairs,                 \* SpatialView props.pairs
  pairConfigs            \* SpatialView useMemo pairConfigs

vars == <<phase, activeTestQueue, currentCategoryIndex, currentQuestionIndex,
          questions, responses, isLoading, reasoningStep, analysis, history,
          timeLeft, isTimeoutFlash, hasTimedOut, timers, buzzes, pendingLoads,
          loadCount, startCount, pendingAnalyses, alertShown, apiKey, pairs,
          pairConfigs>>

NoQuestion == [id |-> <<>>]

\* the React state as one value
Cur ==
  [phase |-> phase, activeTestQueue |-> activeTestQueue,
   currentCategoryIndex |-> currentCategoryIndex,
   currentQuestionIndex |-> currentQuestionIndex,
   questions |-> questions, responses |-> responses, isLoading |-> isLoading,
   reasoningStep |-> reasoningStep, analysis |-> analysis, history |-> history,
   timeLeft |-> timeLeft, isTimeoutFlash |-> isTimeoutFlash,
   hasTimedOut |-> hasTimedOut, timers |-> timers, buzzes |-> buzzes]

\* array[index] with a 0-based index; undefined -> none
At(seq, index, none) ==
  IF index >= 0 /\ index < Len(seq) THEN seq[index + 1] ELSE none

\* activeTestQueue[currentCategoryIndex]
CategoryOf(s) == At(s.activeTestQueue, s.currentCategoryIndex, "")

\* questions[currentQuestionIndex]
QuestionOf(s) == At(s.questions, s.currentQuestionIndex, NoQuestion)

currentCategoryName == CategoryOf(Cur)
currentQuestion == QuestionOf(Cur)

Init ==
  /\ phase = "intro"
  /\ activeTestQueue = <<>>
  /\ currentCategoryIndex = 0
  /\ currentQuestionIndex = 0
  /\ questions = <<>>
  /\ responses = <<>>
  /\ isLoading = FALSE
  /\ reasoningStep = "statement"
  /\ analysis = NullAnalysis
  /\ history = <<>>
  /\ timeLeft = 0
  /\ isTimeoutFlash = FALSE
  /\ hasTimedOut = FALSE
  /\ timers = {}
  /\ buzzes = 0
  /\ pendingLoads = {}
  /\ loadCount = 0
  /\ startCount = 0
  /\ pendingAnalyses = {}
  /\ alertShown = FALSE
  /\ apiKey \in BOOLEAN
  /\ pairs = <<>>
  /\ pairConfigs = <<>>

\* A behaviour stays within the bounds above, or it is a single start that
\* may run through all sections of the full assessment
WithinBounds(starts, loads) ==
  \/ starts <= MaxStarts /\ loads <= MaxLoads
  \/ starts <= 1 /\ loads <= Len(FULL_ASSESSMENT_ORDER)

Bounded == WithinBounds(startCount', loadCount')

\* a practice start is also explored one beyond the bounds when it races with
\* the analysis of the run before it: that analysis is pending, no load is,
\* and no run was recorded yet
BoundedStart ==
  \/ Bounded
  \/ /\ startCount' <= MaxStarts + 1
     /\ loadCount' <= MaxLoads + 1
     /\ \E closure \in pendingAnalyses : closure.run = startCount
     /\ pendingLoads = {}
     /\ Len(activeTestQueue') = 1
     /\ history = <<>>

\* the run beyond the bounds is answered correctly, within its section, while
\* an analysis is pending
BoundedAnswer(isCorrect, branch) ==
  \/ Bounded
  \/ branch # "section" /\ pendingAnalyses # {} /\ isCorrect

\* a restart is also explored one load beyond the bounds when it races with
\* a load that is still pending
BoundedRestart ==
  \/ Bounded
  \/ startCount' <= MaxStarts /\ loadCount' <= MaxLoads + 1 /\ pendingLoads # {}

----------------------------------------------------------------------------
(* Timer *)

\* handleTimeOut as it would be if the alert also submitted an empty answer
handleTimeOutSubmitting(s) ==
  IF s.hasTimedOut THEN s
  ELSE [s EXCEPT !.hasTimedOut = TRUE, !.isTimeoutFlash = TRUE,
                 !.buzzes = s.buzzes + 1,
                 !.responses = Append(s.responses,
                   [questionId |-> At(s.questions, s.currentQuestionIndex,
                                      [id |-> <<>>]).id,
                    category |-> At(s.activeTestQueue, s.currentCategoryIndex, ""),
                    selectedAnswer |-> "", correctAnswer |-> "",
                    isCorrect |-> FALSE])]

\* handleTimeOut: alert once, start the flash; no answer is submitted
handleTimeOut(s) ==
  IF s.hasTimedOut THEN s
  ELSE [s EXCEPT !.hasTimedOut = TRUE, !.isTimeoutFlash = TRUE,
                 !.buzzes = s.buzzes + 1]

\* shouldRunTimer without the Reasoning statement gate
shouldRunTimerUngated(s) ==
  s.phase = "test" /\ ~s.isTimeoutFlash /\ ~s.isLoading /\ ~s.hasTimedOut

\* shouldRunTimer of the timer effect
shouldRunTimer(s) ==
  LET isTestPhase == s.phase = "test"
      isReasoningStatement ==
        CategoryOf(s) = REASONING /\ s.reasoningStep = "statement"
  IN  isTestPhase /\ ~isReasoningStatement /\ ~s.isTimeoutFlash
      /\ ~s.isLoading /\ ~s.hasTimedOut

\* an effect without cleanup: the timeout already scheduled stays pending
KeepTimer(pending) == pending

\* the effect's cleanup: clearTimeout(timerRef.current)
ClearTimer(pending) == {}

\* the timeout the effect schedules, tagged with the question it is armed for
ScheduledTick(s) ==
  [category |-> s.currentCategoryIndex, index |-> s.currentQuestionIndex,
   question |-> QuestionOf(s).id]

\* a timer effect that schedules its tick without looking at timeLeft
RunTimerEffectAtZero(s) ==
  LET cleaned == [s EXCEPT !.timers = ClearTimer(s.timers)]
  IN  IF shouldRunTimer(cleaned)
        THEN [cleaned EXCEPT !.timers = cleaned.timers \cup {ScheduledTick(cleaned)}]
      ELSE cleaned

\* one run of the timer effect: the previous run's cleanup, then the body
RunTimerEffect(s) ==
  LET cleaned == [s EXCEPT !.timers = ClearTimer(s.timers)]
  IN  IF shouldRunTimer(cleaned) /\ cleaned.timeLeft > 0
        THEN [cleaned EXCEPT !.timers = cleaned.timers \cup {ScheduledTick(cleaned)}]
      ELSE IF cleaned.timeLeft = 0 /\ shouldRunTimer(cleaned)
        THEN handleTimeOut(cleaned)
      ELSE cleaned

\* the effect runs after every commit, and again after the commit
\* handleTimeOut causes
TimerEffect(s) ==
  CHOOSE second \in {RunTimerEffect(first) : first \in {RunTimerEffect(s0) : s0 \in {s}}} : TRUE

\* commit a React state, timer effect included
Commit(s0) ==
  \E s \in {TimerEffect(s0)} :
      /\ phase' = s.phase
      /\ activeTestQueue' = s.activeTestQueue
      /\ currentCategoryIndex' = s.currentCategoryIndex
      /\ currentQuestionIndex' = s.currentQuestionIndex
      /\ questions' = s.questions
      /\ responses' = s.responses
      /\ isLoading' = s.isLoading
      /\ reasoningStep' = s.reasoningStep
      /\ analysis' = s.analysis
      /\ history' = s.history
      /\ timeLeft' = s.timeLeft
      /\ isTimeoutFlash' = s.isTimeoutFlash
      /\ hasTimedOut' = s.hasTimedOut
      /\ timers' = s.timers
      /\ buzzes' = s.buzzes

----------------------------------------------------------------------------
(* Rendering: which controls exist *)

\* the results view dereferences analysis.strengths, .recommendations and
\* .categoryScores: with the body {} the render throws and React unmounts App
Mounted == ~(phase = "analysis" /\ analysis = EmptyAnalysis)

\* the overall accuracy the results view shows
accuracy ==
  RoundPercent(Len(SelectSeq(responses, LAMBDA r : r.isCorrect)), Len(responses))

\* the results view (phase === 'analysis' && analysis)
AnalysisView == phase = "analysis" /\ analysis # NullAnalysis

\* renderTestPhase shows answer buttons for the current question; the
\* Reasoning view shows them only once the statement was clicked away
AnswerButtonsShown ==
  /\ phase = "test"
  /\ currentQuestion # NoQuestion
  /\ ~(currentQuestion.category = REASONING /\ reasoningStep = "statement")

----------------------------------------------------------------------------
(* Section loading *)

\* loadSection up to its await: pending state, questions dropped
loadSection(s) == [s EXCEPT !.isLoading = TRUE, !.questions = <<>>]

\* a generateQuestions that sends its request without looking at the key
IssueLoadUnchecked(category, caller) ==
  /\ loadCount' = loadCount + 1
  /\ pendingLoads' = pendingLoads \cup
       {[id |-> loadCount + 1, category |-> category, sent |-> TRUE,
         caller |-> caller]}

\* the generateQuestions call of loadSection; without an API key it throws
\* before any request is made
IssueLoad(category, caller) ==
  /\ loadCount' = loadCount + 1
  /\ pendingLoads' = pendingLoads \cup
       {[id |-> loadCount + 1, category |-> category, sent |-> apiKey,
         caller |-> caller]}

NoLoad == UNCHANGED <<pendingLoads, loadCount>>

\* generateQuestions with ids that carry no timestamp
generateQuestionsUnstamped(category, raw, stamp) ==
  [i \in 1..Len(raw) |->
     [id |-> <<category, i - 1, 0>>,
      category |-> category,
      correctAnswer |-> raw[i].correctAnswer,
      timeLimitSeconds |-> getTimeLimitForCategory(category)]]

\* generateQuestions spreading the collaborator's fields over its own
generateQuestionsKeepingRaw(category, raw, stamp) ==
  [i \in 1..Len(raw) |->
     [id |-> raw[i].id,
      category |-> raw[i].category,
      correctAnswer |-> raw[i].correctAnswer,
      timeLimitSeconds |-> raw[i].timeLimitSeconds]]

\* generateQuestions after the response arrived: ids, category, time limit;
\* stamp is the Date.now() of the response's arrival
generateQuestions(category, raw, stamp) ==
  [i \in 1..Len(raw) |->
     [id |-> <<category, i - 1, stamp>>,
      category |-> category,
      correctAnswer |-> raw[i].correctAnswer,
      timeLimitSeconds |-> getTimeLimitForCategory(category)]]

\* loadSection after its await, try branch
loadSectionCommit(s, batch) ==
  [s EXCEPT !.questions = batch, !.currentQuestionIndex = 0, !.isLoading = FALSE]

\* a catch branch that stays on the instructions view
loadSectionCatchStaying(s) == [s EXCEPT !.isLoading = FALSE, !.phase = "instructions"]

\* loadSection after its await, catch branch (after the alert)
loadSectionCatch(s) == [s EXCEPT !.isLoading = FALSE, !.phase = "intro"]

\* the collaborator answers request r with an array of n questions
LoadResolve(r, n) ==
  /\ Mounted
  /\ r \in pendingLoads
  /\ r.sent
  /\ n \in BatchLengthsOf(r, loadCount)
  /\ pendingLoads' = pendingLoads \ {r}
  /\ Commit(loadSectionCommit(Cur,
       generateQuestions(r.category, RawQuestions(n), r.id)))
  /\ alertShown' = FALSE
  /\ UNCHANGED <<loadCount, startCount, pendingAnalyses, apiKey, pairs, pairConfigs>>

\* generateQuestions throws: no key, the request failed, or the body has no
\* questions array
LoadReject(r) ==
  /\ Mounted
  /\ r \in pendingLoads
  /\ pendingLoads' = pendingLoads \ {r}
  /\ Commit(loadSectionCatch(Cur))
  /\ alertShown' = TRUE
  /\ UNCHANGED <<loadCount, startCount, pendingAnalyses, apiKey, pairs, pairConfigs>>

----------------------------------------------------------------------------
(* Starting, restarting, quitting *)

startState(s, queue) ==
  loadSection([s EXCEPT !.analysis = NullAnalysis,
                        !.activeTestQueue = queue,
                        !.responses = <<>>,
                        !.currentCategoryIndex = 0,
                        !.phase = "instructions"])

\* "Start Full Assessment" on the intro view, "Retake Full Test" on the results view
startFullAssessment ==
  /\ Mounted
  /\ phase = "intro" \/ AnalysisView
  /\ startCount' = startCount + 1
  /\ IssueLoad(FULL_ASSESSMENT_ORDER[1], "start")
  /\ Commit(startState(Cur, FULL_ASSESSMENT_ORDER))
  /\ alertShown' = FALSE
  /\ UNCHANGED <<pendingAnalyses, apiKey, pairs, pairConfigs>>
  /\ BoundedStart

startPracticeTest(category) ==
  /\ Mounted
  /\ phase = "intro"
  /\ startCount' = startCount + 1
  /\ IssueLoad(category, "start")
  /\ Commit(startState(Cur, <<category>>))
  /\ alertShown' = FALSE
  /\ UNCHANGED <<pendingAnalyses, apiKey, pairs, pairConfigs>>
  /\ BoundedStart

\* a restart that rebuilds the queue from the current category
restartStateRequeueing(s, category) ==
  loadSection([s EXCEPT !.phase = "instructions",
                        !.isLoading = TRUE,
                        !.activeTestQueue = <<category>>,
                        !.responses =
                          SelectSeq(s.responses, LAMBDA r : r.category # category)])

\* a restart that drops the whole ledger
restartStateClearingAll(s, category) ==
  loadSection([s EXCEPT !.phase = "instructions",
                        !.isLoading = TRUE,
                        !.responses = <<>>])

restartState(s, category) ==
  loadSection([s EXCEPT !.phase = "instructions",
                        !.isLoading = TRUE,
                        !.responses =
                          SelectSeq(s.responses, LAMBDA r : r.category # category)])

\* the restart button of the test view; confirmed is window.confirm's answer
restartCurrentSection(confirmed) ==
  /\ Mounted
  /\ phase = "test"
  /\ IF confirmed
       THEN /\ IssueLoad(currentCategoryName, "restart")
            /\ Commit(restartState(Cur, currentCategoryName))
            /\ alertShown' = FALSE
            /\ UNCHANGED <<startCount, pendingAnalyses, apiKey, pairs, pairConfigs>>
            /\ BoundedRestart
       ELSE UNCHANGED vars

\* a quit that keeps the ledger
quitStateKeepingResponses(s) ==
  [s EXCEPT !.phase = "intro", !.activeTestQueue = <<>>, !.questions = <<>>]

quitState(s) ==
  [s EXCEPT !.phase = "intro", !.activeTestQueue = <<>>,
            !.questions = <<>>, !.responses = <<>>]

\* the exit button of the instructions and test views
quitAssessment(confirmed) ==
  /\ Mounted
  /\ phase \in {"instructions", "test"}
  /\ IF confirmed
       THEN /\ Commit(quitState(Cur))
            /\ alertShown' = FALSE
            /\ NoLoad
            /\ UNCHANGED <<startCount, pendingAnalyses, apiKey, pairs, pairConfigs>>
       ELSE UNCHANGED vars

\* the history button of the intro view
viewHistory ==
  /\ Mounted
  /\ phase = "intro"
  /\ Commit([Cur EXCEPT !.phase = "history"])
  /\ alertShown' = FALSE
  /\ NoLoad
  /\ UNCHANGED <<startCount, pendingAnalyses, apiKey, pairs, pairConfigs>>

\* the back buttons of the history view and of the results view
backToIntro ==
  /\ Mounted
  /\ phase = "history" \/ AnalysisView
  /\ Commit([Cur EXCEPT !.phase = "intro"])
  /\ alertShown' = FALSE
  /\ NoLoad
  /\ UNCHANGED <<startCount, pendingAnalyses, apiKey, pairs, pairConfigs>>

----------------------------------------------------------------------------
(* The question loop *)

\* a dismissal that leaves the timed-out flag as it is
dismissStateKeepingTimeout(s) ==
  IF s.isLoading \/ Len(s.questions) = 0 THEN s
  ELSE [s EXCEPT !.timeLeft = s.questions[1].timeLimitSeconds,
                 !.phase = "test",
                 !.currentQuestionIndex = 0,
                 !.reasoningStep = "statement"]

\* handleInstructionsDismiss: nothing while loading or without questions
dismissState(s) ==
  IF s.isLoading \/ Len(s.questions) = 0 THEN s
  ELSE [s EXCEPT !.timeLeft = s.questions[1].timeLimitSeconds,
                 !.hasTimedOut = FALSE,
                 !.buzzes = 0,
                 !.phase = "test",
                 !.currentQuestionIndex = 0,
                 !.reasoningStep = "statement"]

\* the start button of the instructions view
handleInstructionsDismiss ==
  /\ Mounted
  /\ phase = "instructions"
  /\ IF dismissState(Cur) = Cur
       THEN UNCHANGED vars
       ELSE /\ Commit(dismissState(Cur))
            /\ alertShown' = FALSE
            /\ NoLoad
            /\ UNCHANGED <<startCount, pendingAnalyses, apiKey, pairs, pairConfigs>>

\* clicking the Reasoning statement
revealQuestion ==
  /\ Mounted
  /\ phase = "test"
  /\ currentQuestion # NoQuestion
  /\ currentQuestion.category = REASONING
  /\ reasoningStep = "statement"
  /\ Commit([Cur EXCEPT !.reasoningStep = "question"])
  /\ alertShown' = FALSE
  /\ NoLoad
  /\ UNCHANGED <<startCount, pendingAnalyses, apiKey, pairs, pairConfigs>>

\* handleAnswer without the guard on the timeout flash
answerAcceptedDuringFlash(s) ==
  /\ s.phase = "test"
  /\ QuestionOf(s) # NoQuestion

\* handleAnswer refusing the answer to a question that has timed out
answerAcceptedBeforeTimeout(s) ==
  /\ s.phase = "test"
  /\ ~s.isTimeoutFlash
  /\ ~s.hasTimedOut
  /\ QuestionOf(s) # NoQuestion

\* the guards of handleAnswer (isTimeout is false at every call site)
answerAccepted(s) ==
  /\ s.phase = "test"
  /\ ~s.isTimeoutFlash
  /\ QuestionOf(s) # NoQuestion

\* newResponse with a case-sensitive comparison
newResponseCaseSensitive(q, selectedAnswer) ==
  [questionId |-> q.id,
   category |-> q.category,
   selectedAnswer |-> selectedAnswer,
   correctAnswer |-> q.correctAnswer,
   isCorrect |-> selectedAnswer = q.correctAnswer]

\* the response handleAnswer records; String() leaves the button labels and
\* the schema's string correctAnswer as they are
newResponse(q, selectedAnswer) ==
  [questionId |-> q.id,
   category |-> q.category,
   selectedAnswer |-> selectedAnswer,
   correctAnswer |-> q.correctAnswer,
   isCorrect |-> ToLowerCase(selectedAnswer) = ToLowerCase(q.correctAnswer)]

\* nextQuestion ending the section one question early
nextQuestionBranchEarly(s) ==
  IF s.currentQuestionIndex + 2 < Len(s.questions) THEN "next"
  ELSE IF s.currentCategoryIndex + 1 < Len(s.activeTestQueue) THEN "section"
  ELSE "finish"

\* what nextQuestion does: "next", "section" or "finish"
nextQuestionBranch(s) ==
  IF s.currentQuestionIndex + 1 < Len(s.questions) THEN "next"
  ELSE IF s.currentCategoryIndex + 1 < Len(s.activeTestQueue) THEN "section"
  ELSE "finish"

\* nextQuestion moving on without re-arming the countdown
nextQuestionKeepingTimer(s) ==
  LET nextIndex == s.currentQuestionIndex + 1
      nextCatIndex == s.currentCategoryIndex + 1
  IN  CASE nextQuestionBranch(s) = "next" ->
             [s EXCEPT !.currentQuestionIndex = nextIndex,
                       !.reasoningStep = "statement"]
        [] nextQuestionBranch(s) = "section" ->
             loadSection([s EXCEPT !.phase = "instructions",
                                   !.currentCategoryIndex = nextCatIndex,
                                   !.questions = <<>>])
        [] OTHER ->
             [s EXCEPT !.phase = "analysis", !.isLoading = TRUE]

\* nextQuestion up to its await
nextQuestion(s) ==
  LET nextIndex == s.currentQuestionIndex + 1
      nextCatIndex == s.currentCategoryIndex + 1
  IN  CASE nextQuestionBranch(s) = "next" ->
             [s EXCEPT !.currentQuestionIndex = nextIndex,
                       !.reasoningStep = "statement",
                       !.timeLeft = s.questions[nextIndex + 1].timeLimitSeconds,
                       !.hasTimedOut = FALSE,
                       !.buzzes = 0]
        [] nextQuestionBranch(s) = "section" ->
             loadSection([s EXCEPT !.phase = "instructions",
                                   !.currentCategoryIndex = nextCatIndex,
                                   !.questions = <<>>])
        [] OTHER ->
             \* finishAssessment up to its await
             [s EXCEPT !.phase = "analysis", !.isLoading = TRUE]

\* handleAnswer moving on without recording the response
answerStateDropping(s, selectedAnswer) ==
  IF ~answerAccepted(s) THEN s ELSE nextQuestion(s)

\* handleAnswer putting the new response in front of the ledger
answerStatePrepending(s, selectedAnswer) ==
  IF ~answerAccepted(s) THEN s
  ELSE LET updatedResponses ==
             <<newResponse(QuestionOf(s), selectedAnswer)>> \o s.responses
       IN  nextQuestion([s EXCEPT !.responses = updatedResponses])

\* handleAnswer with its call of nextQuestion
answerState(s, selectedAnswer) ==
  IF ~answerAccepted(s) THEN s
  ELSE LET updatedResponses ==
             Append(s.responses, newResponse(QuestionOf(s), selectedAnswer))
       IN  nextQuestion([s EXCEPT !.responses = updatedResponses])

\* finishAssessment taking every non-empty queue for a full run
finishClosureAlwaysFull(s, finalResponses) ==
  [run |-> startCount,
   finalResponses |-> finalResponses,
   isFull |-> Len(s.activeTestQueue) > 0,
   history |-> s.history,
   sent |-> apiKey]

\* finishAssessment reading the ledger of the render that handled the answer,
\* which lacks the final answer
finishClosureStale(s, finalResponses) ==
  [run |-> startCount,
   finalResponses |-> s.responses,
   isFull |-> Len(s.activeTestQueue) > 1,
   history |-> s.history,
   sent |-> apiKey]

\* finishAssessment's closure: finalResponses, and the queue and history of
\* the render that handled the answer
finishClosure(s, finalResponses) ==
  [run |-> startCount,
   finalResponses |-> finalResponses,
   isFull |-> Len(s.activeTestQueue) > 1,
   history |-> s.history,
   sent |-> apiKey]

\* the user may still give this answer to the current question
WithinWrongAnswers(selectedAnswer) ==
  IF currentQuestion = NoQuestion THEN TRUE
  ELSE IF newResponse(currentQuestion, selectedAnswer).isCorrect THEN TRUE
  ELSE Len(SelectSeq(responses, LAMBDA r : ~r.isCorrect)) < MaxWrongAnswers

\* an answer button, or a click that lands after its view is gone
handleAnswer(selectedAnswer) ==
  /\ Mounted
  /\ AnswerButtonsShown \/ phase # "test"
  /\ WithinWrongAnswers(selectedAnswer)
  /\ IF ~answerAccepted(Cur)
       THEN UNCHANGED vars
       ELSE /\ Commit(answerState(Cur, selectedAnswer))
            /\ alertShown' = FALSE
            /\ IF nextQuestionBranch(Cur) = "section"
                 THEN IssueLoad(At(activeTestQueue, currentCategoryIndex + 1, ""),
                                "nextQuestion")
                 ELSE NoLoad
            /\ pendingAnalyses' =
                 IF nextQuestionBranch(Cur) = "finish"
                   THEN pendingAnalyses \cup
                        {finishClosure(Cur,
                           Append(responses, newResponse(currentQuestion, selectedAnswer)))}
                   ELSE pendingAnalyses
            /\ UNCHANGED <<startCount, apiKey, pairs, pairConfigs>>
            /\ BoundedAnswer(newResponse(currentQuestion, selectedAnswer).isCorrect,
                             nextQuestionBranch(Cur))

\* the timeout scheduled by the timer effect fires
tick(t) ==
  /\ Mounted
  /\ t \in timers
  /\ Commit([Cur EXCEPT !.timers = timers \ {t}, !.timeLeft = timeLeft - 1])
  /\ alertShown' = FALSE
  /\ NoLoad
  /\ UNCHANGED <<startCount, pendingAnalyses, apiKey, pairs, pairConfigs>>

\* a flash end that also forgets that the question timed out
flashEndStateForgetting(s) ==
  [s EXCEPT !.isTimeoutFlash = FALSE, !.hasTimedOut = FALSE]

\* a flash end that also restarts the countdown of the timed-out question
flashEndStateRearming(s) ==
  [s EXCEPT !.isTimeoutFlash = FALSE,
            !.timeLeft = At(s.questions, s.currentQuestionIndex,
                            [timeLimitSeconds |-> 0]).timeLimitSeconds]

\* a flash end that leaves the flash on
flashEndStateStuck(s) == [s EXCEPT !.isTimeoutFlash = s.isTimeoutFlash]

\* the 600 ms timeout of handleTimeOut fires
flashEndState(s) == [s EXCEPT !.isTimeoutFlash = FALSE]

flashEnd ==
  /\ Mounted
  /\ isTimeoutFlash
  /\ Commit(flashEndState(Cur))
  /\ alertShown' = FALSE
  /\ NoLoad
  /\ UNCHANGED <<startCount, pendingAnalyses, apiKey, pairs, pairConfigs>>

----------------------------------------------------------------------------
(* Analysis *)

\* what analyzeResults returns
analyzeResults(outcome) ==
  CASE outcome = "nokey" -> getMockAnalysis
    [] outcome = "error" -> getMockAnalysis
    [] outcome = "empty" -> EmptyAnalysis
    [] OTHER -> CollaboratorAnalysis

AnalysisOutcomes(closure) ==
  IF closure.sent THEN {"result", "error", "empty"} ELSE {"nokey"}

\* the record with a score that is truncated, not rounded
assessmentRecordTruncating(closure) ==
  LET correctCount ==
        Len(SelectSeq(closure.finalResponses, LAMBDA r : r.isCorrect))
  IN  [mode |-> IF closure.isFull THEN "Full" ELSE "Practice",
       totalQuestions |-> Len(closure.finalResponses),
       score |-> (100 * correctCount) \div Len(closure.finalResponses)]

\* the AssessmentRecord finishAssessment builds
assessmentRecord(closure) ==
  LET correctCount ==
        Len(SelectSeq(closure.finalResponses, LAMBDA r : r.isCorrect))
  IN  [mode |-> IF closure.isFull THEN "Full" ELSE "Practice",
       totalQuestions |-> Len(closure.finalResponses),
       score |-> RoundPercent(correctCount, Len(closure.finalResponses))]

\* finishAssessment after its await; result.summary.substring throws on the
\* body {} and the rest of the function is skipped
finishAssessment(s, closure, result) ==
  IF result = EmptyAnalysis THEN [s EXCEPT !.analysis = result]
  ELSE [s EXCEPT !.analysis = result,
                 !.history = <<assessmentRecord(closure)>> \o closure.history,
                 !.isLoading = FALSE]

\* the analyzeResults call of closure settles
analysisResolve(closure, outcome) ==
  /\ Mounted
  /\ closure \in pendingAnalyses
  /\ outcome \in AnalysisOutcomes(closure)
  /\ Commit(finishAssessment(Cur, closure, analyzeResults(outcome)))
  /\ pendingAnalyses' = pendingAnalyses \ {closure}
  /\ alertShown' = FALSE
  /\ NoLoad
  /\ UNCHANGED <<startCount, apiKey, pairs, pairConfigs>>

----------------------------------------------------------------------------

Next ==
  \/ startFullAssessment
  \/ \E category \in PracticeCategories : startPracticeTest(category)
  \/ \E r \in pendingLoads, n \in BatchLengths : LoadResolve(r, n)
  \/ \E r \in pendingLoads : LoadReject(r)
  \/ \E confirmed \in BOOLEAN : restartCurrentSection(confirmed)
  \/ \E confirmed \in BOOLEAN : quitAssessment(confirmed)
  \/ viewHistory
  \/ backToIntro
  \/ handleInstructionsDismiss
  \/ revealQuestion
  \/ \E selectedAnswer \in Answers : handleAnswer(selectedAnswer)
  \/ \E t \in timers : tick(t)
  \/ flashEnd
  \/ \E closure \in pendingAnalyses, outcome \in {"result", "error", "empty", "nokey"} :
       analysisResolve(closure, outcome)

Spec == Init /\ [][Next]_vars

\* the analyzeResults promise settles: the request returns or throws
LiveSpec ==
  Spec /\ WF_vars(\E closure \in pendingAnalyses,
                      outcome \in {"result", "error", "empty", "nokey"} :
                    analysisResolve(closure, outcome))

\* the 600 ms timeout handleTimeOut sets is never cleared: once set, its
\* callback runs
FlashSpec == Spec /\ WF_vars(flashEnd)

----------------------------------------------------------------------------
(* SpatialView: the component rendered for a Spatial question.  Its
   pairConfigs are computed from props.pairs and three Math.random() draws
   per pair.  A draw is the numerator of a fraction over RandomDen. *)

\* the longest pairs array rendered
MaxPairs == 2

\* Math.random() returns draw / RandomDen, 0 <= draw < RandomDen
RandomDen == 360

\* the draws explored: 0, one half, and the largest value below 1
RandomDraws == {0, RandomDen \div 2, RandomDen - 1}

\* Math.floor(Math.random() * n)
FloorOfDraw(draw, n) == (draw * n) \div RandomDen

\* Math.random() < 0.5
BelowHalf(draw) == 2 * draw < RandomDen

\* the arrays of booleans a Spatial question can carry
PairsArrays == UNION {[1..n -> BOOLEAN] : n \in 0..MaxPairs}

\* the callback of pairs.map with a rotation difference drawn from the whole
\* circle
pairConfigAnyRotation(isMatch, index, draw) ==
  LET isTopMirrored == BelowHalf(draw[1])
      baseRot == (index * 90 + FloorOfDraw(draw[2], 60)) % 360
      diffRot == FloorOfDraw(draw[3], 360)
      compRot == (baseRot + diffRot) % 360
      isBottomMirrored == IF isMatch THEN isTopMirrored ELSE ~isTopMirrored
  IN  [isTopMirrored |-> isTopMirrored, isBottomMirrored |-> isBottomMirrored,
       baseRot |-> baseRot, compRot |-> compRot]

\* the callback of pairs.map: index is 0-based, draw holds the three
\* Math.random() values in call order
pairConfig(isMatch, index, draw) ==
  LET isTopMirrored == BelowHalf(draw[1])
      baseRot == (index * 90 + FloorOfDraw(draw[2], 60)) % 360
      diffRot == 90 + FloorOfDraw(draw[3], 180)
      compRot == (baseRot + diffRot) % 360
      isBottomMirrored == IF isMatch THEN isTopMirrored ELSE ~isTopMirrored
  IN  [isTopMirrored |-> isTopMirrored, isBottomMirrored |-> isBottomMirrored,
       baseRot |-> baseRot, compRot |-> compRot]

\* SpatialView is mounted for a question (key = question.id): useMemo
\* computes pairConfigs from props.pairs
SpatialView(newPairs, draws) ==
  /\ pairs' = newPairs
  /\ pairConfigs' =
       [i \in 1..Len(newPairs) |-> pairConfig(newPairs[i], i - 1, draws[i])]
  /\ UNCHANGED <<phase, activeTestQueue, currentCategoryIndex, currentQuestionIndex,
                 questions, responses, isLoading, reasoningStep, analysis, history,
                 timeLeft, isTimeoutFlash, hasTimedOut, timers, buzzes, pendingLoads,
                 loadCount, startCount, pendingAnalyses, alertShown, apiKey>>

\* the question is left and its SpatialView unmounted
SpatialUnmount ==
  /\ pairs # <<>>
  /\ pairs' = <<>>
  /\ pairConfigs' = <<>>
  /\ UNCHANGED <<phase, activeTestQueue, currentCategoryIndex, currentQuestionIndex,
                 questions, responses, isLoading, reasoningStep, analysis, history,
                 timeLeft, isTimeoutFlash, hasTimedOut, timers, buzzes, pendingLoads,
                 loadCount, startCount, pendingAnalyses, alertShown, apiKey>>

\* a Spatial question is shown: its SpatialView is mounted with the
\* question's spatialPairs
SpatialMount ==
  /\ pairs = <<>>
  /\ \E newPairs \in PairsArrays :
       \E draws \in [1..Len(newPairs) -> RandomDraws \X RandomDraws \X RandomDraws] :
         SpatialView(newPairs, draws)

SpatialNext ==
  \/ SpatialMount
  \/ SpatialUnmount

SpatialSpec == Init /\ [][SpatialNext]_vars

----------------------------------------------------------------------------
(* One run with a credential, a collaborator that answers every load with a
   non-empty batch, and a user who neither quits nor restarts. *)

RunInit == Init /\ apiKey

RunNext ==
  \/ startCount = 0 /\ startFullAssessment
  \/ startCount = 0 /\ \E category \in PracticeCategories : startPracticeTest(category)
  \/ \E r \in pendingLoads, n \in BatchLengths \ {0} : LoadResolve(r, n)
  \/ handleInstructionsDismiss
  \/ revealQuestion
  \/ \E selectedAnswer \in Answers : handleAnswer(selectedAnswer)
  \/ \E t \in timers : tick(t)
  \/ flashEnd
  \/ \E closure \in pendingAnalyses, outcome \in {"result", "error", "empty", "nokey"} :
       analysisResolve(closure, outcome)

\* what the collaborator, the flash timeout and the user do next in a run:
\* answer the pending load, end the flash, dismiss the instructions, reveal
\* the Reasoning question, answer
RunProgress ==
  \/ \E r \in pendingLoads, n \in BatchLengths \ {0} : LoadResolve(r, n)
  \/ handleInstructionsDismiss
  \/ revealQuestion
  \/ \E selectedAnswer \in Answers : handleAnswer(selectedAnswer)
  \/ flashEnd

\* every request is answered, every timeout callback runs, and the user keeps
\* dismissing instructions, revealing Reasoning questions and answering
RunSpec == RunInit /\ [][RunNext]_vars /\ WF_vars(RunProgress)

----------------------------------------------------------------------------
(* The program without a credential: process.env.API_KEY is not set.  The
   handlers that can run are those of the intro, history and instructions
   views; finishAssessment is applied to a ledger directly, as no run can
   reach it. *)

\* the ledgers finishAssessment is applied to
SampleLedgers ==
  {<<newResponse(generateQuestions(WORD_MEANING, RawQuestions(1), 0)[1], answer)>> :
     answer \in Answers}

\* finishAssessment(finalResponses) up to its await
finishAssessmentCall(finalResponses) ==
  /\ Mounted
  /\ phase = "intro"
  /\ pendingAnalyses = {}
  /\ Len(history) < MaxStarts
  /\ Commit([Cur EXCEPT !.phase = "analysis", !.isLoading = TRUE])
  /\ pendingAnalyses' = {finishClosure(Cur, finalResponses)}
  /\ alertShown' = FALSE
  /\ NoLoad
  /\ UNCHANGED <<startCount, apiKey, pairs, pairConfigs>>

NoCredentialInit == Init /\ ~apiKey

NoCredentialNext ==
  \/ startFullAssessment
  \/ \E category \in PracticeCategories : startPracticeTest(category)
  \/ \E r \in pendingLoads : LoadReject(r)
  \/ \E confirmed \in BOOLEAN : quitAssessment(confirmed)
  \/ viewHistory
  \/ backToIntro
  \/ \E finalResponses \in SampleLedgers : finishAssessmentCall(finalResponses)
  \/ \E closure \in pendingAnalyses, outcome \in {"result", "error", "empty", "nokey"} :
       analysisResolve(closure, outcome)

NoCredentialSpec == NoCredentialInit /\ [][NoCredentialNext]_vars

----------------------------------------------------------------------------
(* Properties *)

\* request r is no longer the load the session waits for: a newer load was
\* issued, or the session left the instructions view that awaits it
Superseded(r) == r.id # loadCount \/ phase # "instructions"

\* this step settles request r through the try branch of loadSection
CommitsLoad(r) == r \in pendingLoads /\ r \notin pendingLoads' /\ ~alertShown'

\* this step settles request r through the catch branch of loadSection
RejectsLoad(r) == r \in pendingLoads /\ r \notin pendingLoads' /\ alertShown'

\* handleTimeOut raised its alert in this step
TimeoutFired == buzzes' = buzzes + 1

\* the timer may run: test phase, nothing loading, no flash, and not the
\* statement step of a Reasoning section
TimerMayRun ==
  /\ phase = "test"
  /\ ~isLoading
  /\ ~isTimeoutFlash
  /\ ~(currentCategoryName = REASONING /\ reasoningStep = "statement")

\* C1: whenever a run has entered the analysis phase, the ledger holds
\* len(activeTestQueue) * QUESTIONS_PER_CATEGORY responses.
C1_CompletedRunLedgerSize ==
  phase = "analysis" =>
    Len(responses) = Len(activeTestQueue) * QUESTIONS_PER_CATEGORY

\* C2: a superseded load that resolves successfully is dropped: it changes
\* neither questions nor currentQuestionIndex nor isLoading.
C2_SupersededLoadDropped ==
  [][\A r \in pendingLoads :
       (Superseded(r) /\ CommitsLoad(r)) =>
         /\ questions' = questions
         /\ currentQuestionIndex' = currentQuestionIndex
         /\ isLoading' = isLoading]_vars

\* C3: the failure of a superseded load changes neither phase nor isLoading
\* of the session that is current when it resolves.
C3_SupersededFailureIgnored ==
  [][\A r \in pendingLoads :
       (Superseded(r) /\ RejectsLoad(r)) =>
         /\ phase' = phase
         /\ isLoading' = isLoading]_vars

\* C4: in the test phase questions is non-empty and every question belongs
\* to the current category activeTestQueue[currentCategoryIndex].
C4_TestQuestionsCurrent ==
  phase = "test" =>
    /\ questions # <<>>
    /\ \A i \in 1..Len(questions) : questions[i].category = currentCategoryName

\* C5: a load is committed only with exactly QUESTIONS_PER_CATEGORY
\* questions; any other array length is a load failure.
C5_OnlyCompleteBatchAccepted ==
  [][\A r \in pendingLoads :
       CommitsLoad(r) => Len(questions') = QUESTIONS_PER_CATEGORY]_vars

\* C6: the state a load failure produces has phase = intro, isLoading = false
\* and questions empty, and the alert was raised.
C6_LoadFailureState ==
  [][\A r \in pendingLoads :
       (~Superseded(r) /\ RejectsLoad(r)) =>
         /\ phase' = "intro"
         /\ ~isLoading'
         /\ questions' = <<>>]_vars

\* C7: the timeout alert fires at most once per question instance, however
\* often the timer effect is re-run while timeLeft is 0.
C7_TimeoutAtMostOnce == buzzes <= 1

\* C7 witness: a question timed out, its flash has ended and the effect was
\* re-run at timeLeft = 0
C7_Witness ==
  phase = "test" /\ timeLeft = 0 /\ hasTimedOut /\ ~isTimeoutFlash /\ buzzes = 1

\* C8: a timeout leaves responses, phase, currentCategoryIndex,
\* currentQuestionIndex and the current question unchanged, and the answer
\* accepted for a timed-out question is recorded for that question with
\* isCorrect the case-insensitive equality of the two answers.
C8_TimeoutDoesNotSubmit ==
  [][/\ TimeoutFired =>
          /\ responses' = responses
          /\ phase' = phase
          /\ currentCategoryIndex' = currentCategoryIndex
          /\ currentQuestionIndex' = currentQuestionIndex
          /\ questions' = questions
     /\ (hasTimedOut /\ phase = "test" /\ Len(responses') > Len(responses)) =>
          /\ Len(responses') = Len(responses) + 1
          /\ SubSeq(responses', 1, Len(responses)) = responses
          /\ LET r == responses'[Len(responses')]
             IN  /\ r.questionId = currentQuestion.id
                 /\ r.selectedAnswer \in Answers
                 /\ r.isCorrect = (ToLowerCase(r.selectedAnswer)
                                     = ToLowerCase(currentQuestion.correctAnswer))]_vars

\* C8 witness: the last question of a run timed out and was then answered
C8_Witness ==
  /\ phase = "analysis"
  /\ hasTimedOut
  /\ buzzes = 1
  /\ Len(responses) = QUESTIONS_PER_CATEGORY

\* C9: timeLeft is decremented only in the test phase, by one, and only while
\* every pending tick was scheduled for the current question instance; the
\* decrement adds no response.
C9_NoStaleTick ==
  [][timeLeft' < timeLeft =>
       /\ phase = "test"
       /\ timers = {ScheduledTick(Cur)}
       /\ timeLeft' = timeLeft - 1
       /\ responses' = responses]_vars

\* C9 witness: the second question of a section is counting down after the
\* first was answered while its tick was pending
C9_Witness ==
  /\ phase = "test"
  /\ currentQuestionIndex = 1
  /\ Len(responses) = 1
  /\ timeLeft = TimeLimitSeconds - 1
  /\ timers = {ScheduledTick(Cur)}

\* C10: timeLeft is decremented, and a timeout fires, only where the timer
\* may run: test phase, not loading, no flash, not a Reasoning statement.
C10_TimerGated ==
  [][(timeLeft' < timeLeft \/ TimeoutFired) =>
       /\ TimerMayRun
       /\ phase' = "test"
       /\ ~isLoading'
       /\ ~(currentCategoryName' = REASONING /\ reasoningStep' = "statement")]_vars

\* C10 witness: a Reasoning question timed out after its statement was
\* clicked away
C10_Witness ==
  /\ phase = "test"
  /\ currentCategoryName = REASONING
  /\ reasoningStep = "question"
  /\ buzzes = 1

\* this step is an accepted answer: the test view moves to its next question,
\* to the next section or to the analysis
AnswerAccepted ==
  /\ phase = "test"
  /\ \/ phase' = "test" /\ currentQuestionIndex' = currentQuestionIndex + 1
     \/ phase' = "instructions" /\ currentCategoryIndex' = currentCategoryIndex + 1
     \/ phase' = "analysis"

\* the ledger entry the step added
LastResponse == responses'[Len(responses')]

\* x and y are the same letter in either case
EqualIgnoringCase(x, y) ==
  \E letter \in {{"a", "A"}, {"b", "B"}} : x \in letter /\ y \in letter

\* C11: the response recorded for an accepted answer x to question q has
\* isCorrect true exactly when x and q.correctAnswer are equal ignoring case,
\* and stores x and q.correctAnswer themselves.
C11_IsCorrectIgnoresCase ==
  [][AnswerAccepted =>
       /\ Len(responses') > 0
       /\ LastResponse.isCorrect =
            EqualIgnoringCase(LastResponse.selectedAnswer, currentQuestion.correctAnswer)
       /\ LastResponse.selectedAnswer \in Answers
       /\ LastResponse.correctAnswer = currentQuestion.correctAnswer]_vars

\* C11 witness: the ledger holds a correct answer that differs from the key
\* in case, and a wrong answer
C11_Witness ==
  /\ \E i \in 1..Len(responses) :
       responses[i].isCorrect /\ responses[i].selectedAnswer # responses[i].correctAnswer
  /\ \E i \in 1..Len(responses) : ~responses[i].isCorrect

\* C12: an accepted answer appends exactly one entry, for the question that
\* was presented, at the end of responses and leaves the earlier entries as
\* they were.
C12_AnswerAppends ==
  [][AnswerAccepted =>
       /\ Len(responses') = Len(responses) + 1
       /\ SubSeq(responses', 1, Len(responses)) = responses
       /\ LastResponse.questionId = currentQuestion.id
       /\ LastResponse.category = currentQuestion.category]_vars

\* C12 witness: the ledger holds the first two questions of a section in the
\* order they were presented
C12_Witness ==
  /\ Len(responses) >= 2
  /\ responses[1].questionId[2] = 0
  /\ responses[2].questionId[2] = 1
  /\ responses[1].questionId[3] = responses[2].questionId[3]

\* C13: no two entries of responses have the same questionId, and in the test
\* phase every question before the current one has exactly one entry.
C13_OneResponsePerQuestion ==
  /\ \A i, j \in 1..Len(responses) :
       responses[i].questionId = responses[j].questionId => i = j
  /\ phase = "test" =>
       \A k \in 1..Len(questions) :
         k <= currentQuestionIndex =>
           Cardinality({i \in 1..Len(responses) :
                          responses[i].questionId = questions[k].id}) = 1

\* C13 witness: a section of one category was answered in part, restarted and
\* answered again from a fresh batch
C13_Witness ==
  /\ phase = "test"
  /\ currentQuestionIndex = 1
  /\ Len(responses) = 1
  /\ loadCount = 2
  /\ startCount = 1
  /\ Len(activeTestQueue) = 1
  /\ responses[1].questionId = questions[1].id
  /\ questions[1].id[3] = 2

\* this step is a confirmed restart of the current section
RestartConfirmed ==
  /\ phase = "test"
  /\ phase' = "instructions"
  /\ currentCategoryIndex' = currentCategoryIndex

\* what a confirmed restart does at once
RestartEffect ==
  /\ isLoading'
  /\ activeTestQueue' = activeTestQueue
  /\ responses' = SelectSeq(responses, LAMBDA r : r.category # currentCategoryName)
  /\ \E r \in pendingLoads' :
       /\ pendingLoads' = pendingLoads \cup {r}
       /\ r \notin pendingLoads
       /\ r.category = currentCategoryName

\* the reload of a restart has not resolved, and the run was not quit
ReloadPending ==
  /\ activeTestQueue # <<>>
  /\ \E r \in pendingLoads : r.caller = "restart" /\ r.id = loadCount

\* what holds while the reload of a restart is pending
AwaitingReload ==
  /\ phase = "instructions"
  /\ isLoading
  /\ \A i \in 1..Len(responses) : responses[i].category # currentCategoryName

\* C14: a confirmed restart enters instructions with isLoading set, strips the
\* current category's entries from responses, keeps the queue and the
\* category index and issues one load for the category; and until that load
\* resolves (the run not being quit) the machine stays in instructions with
\* isLoading set and no entry of the category in responses.
C14_RestartAwaitsReload ==
  /\ [][RestartConfirmed => RestartEffect]_vars
  /\ [](ReloadPending => AwaitingReload)

\* this step is a confirmed quit: the run goes back to the intro view and no
\* load was settled
QuitConfirmed ==
  /\ phase \in {"instructions", "test"}
  /\ phase' = "intro"
  /\ pendingLoads' = pendingLoads

\* C15: a confirmed quit from instructions or test leaves phase = intro with
\* activeTestQueue, questions and responses empty (a declined quit is a
\* stuttering step).
C15_QuitClearsRun ==
  [][QuitConfirmed =>
       /\ activeTestQueue' = <<>>
       /\ questions' = <<>>
       /\ responses' = <<>>]_vars

\* C15 witness: the run was quit in the test phase after its first answer
C15_Witness ==
  /\ phase = "intro"
  /\ activeTestQueue = <<>>
  /\ responses = <<>>
  /\ questions = <<>>
  /\ pendingLoads = {}
  /\ startCount = 1
  /\ currentQuestionIndex = 1
  /\ history = <<>>

\* the current question is the last one of questions
AtLastQuestion == currentQuestionIndex = Len(questions) - 1

\* C16: currentCategoryIndex grows only by an accepted answer to the last
\* question of the section, by one, and the step clears questions, enters
\* instructions and issues the load of the next category of the queue; the
\* analysis phase is entered only by an accepted answer to the last question
\* of the last category of the queue.
C16_AdvanceOnlyAtSectionEnd ==
  [][/\ currentCategoryIndex' > currentCategoryIndex =>
          /\ phase = "test"
          /\ AtLastQuestion
          /\ Len(responses') = Len(responses) + 1
          /\ currentCategoryIndex' = currentCategoryIndex + 1
          /\ questions' = <<>>
          /\ phase' = "instructions"
          /\ activeTestQueue' = activeTestQueue
          /\ \E r \in pendingLoads' \ pendingLoads :
               r.category = activeTestQueue[currentCategoryIndex' + 1]
     /\ (phase' = "analysis" /\ phase # "analysis") =>
          /\ phase = "test"
          /\ AtLastQuestion
          /\ Len(responses') = Len(responses) + 1
          /\ currentCategoryIndex = Len(activeTestQueue) - 1
          /\ currentCategoryIndex' = currentCategoryIndex]_vars

\* C16 witness: a full assessment went through all its sections into the
\* analysis
C16_Witness ==
  /\ phase = "analysis"
  /\ activeTestQueue = FULL_ASSESSMENT_ORDER
  /\ currentCategoryIndex = Len(FULL_ASSESSMENT_ORDER) - 1
  /\ Len(responses) = Len(FULL_ASSESSMENT_ORDER) * QUESTIONS_PER_CATEGORY

\* this step is the continuation of finishAssessment
AnalysisSettles(closure) == closure \in pendingAnalyses /\ closure \notin pendingAnalyses'

\* C17: whatever analyzeResults returns, the run completes: analysis is the
\* collaborator's result or the placeholder, and one record of the run is put
\* in front of the history.
C17_RunRecorded ==
  [][\A closure \in pendingAnalyses :
       AnalysisSettles(closure) =>
         /\ analysis' \in {CollaboratorAnalysis, MockAnalysis}
         /\ history' = <<assessmentRecord(closure)>> \o history]_vars

\* C18: once the analysis phase is entered, a state with an analysis result
\* and isLoading = false is eventually reached.
C18_AnalysisCompletes ==
  (phase = "analysis") ~> (analysis # NullAnalysis /\ ~isLoading)

\* C19: an answer that arrives outside the test phase or during the timeout
\* flash is ignored: such a state has no step that extends responses, and
\* during the flash no step moves to the next question, section or the
\* analysis, re-arms timeLeft or clears the timed-out flag of the question.
C19_AnswerIgnored ==
  [][/\ (phase # "test" \/ isTimeoutFlash) => Len(responses') <= Len(responses)
     /\ (phase = "test" /\ isTimeoutFlash) =>
          /\ ~AnswerAccepted
          /\ timeLeft' = timeLeft
          /\ phase' = "test" => hasTimedOut' = hasTimedOut]_vars

\* C19 witness: the flash is displayed over a question whose answer buttons
\* are shown, with an answer already in the ledger
C19_Witness ==
  /\ isTimeoutFlash
  /\ AnswerButtonsShown
  /\ Len(responses) = 1
  /\ currentQuestionIndex = 1

\* C20: the test phase is entered only from instructions, with loading
\* completed and questions non-empty, and the step sets currentQuestionIndex
\* to 0, timeLeft to the time limit of question 0, the timed-out flag to false
\* and reasoningStep to statement.
C20_DismissArmsFirstQuestion ==
  [][(phase # "test" /\ phase' = "test") =>
       /\ phase = "instructions"
       /\ ~isLoading
       /\ questions # <<>>
       /\ questions' = questions
       /\ responses' = responses
       /\ currentQuestionIndex' = 0
       /\ timeLeft' = questions[1].timeLimitSeconds
       /\ ~hasTimedOut'
       /\ reasoningStep' = "statement"]_vars

\* C20 witness: a restarted section was dismissed again and its first
\* question is armed
C20_Witness ==
  /\ phase = "test"
  /\ startCount = 1
  /\ loadCount = 2
  /\ Len(activeTestQueue) = 1
  /\ currentQuestionIndex = 0
  /\ responses = <<>>
  /\ timeLeft = TimeLimitSeconds
  /\ ~hasTimedOut
  /\ questions # <<>>

\* this step starts a run (full, practice or retake)
StartStep == startCount' = startCount + 1

\* the queues a run can have
Queues ==
  {FULL_ASSESSMENT_ORDER} \cup {<<category>> : category \in AssessmentCategory}

\* what a start does at once
StartEffect ==
  /\ phase' = "instructions"
  /\ isLoading'
  /\ questions' = <<>>
  /\ activeTestQueue' \in Queues
  /\ currentCategoryIndex' = 0
  /\ responses' = <<>>
  /\ \E r \in pendingLoads' :
       /\ pendingLoads' = pendingLoads \cup {r}
       /\ r \notin pendingLoads
       /\ r.category = activeTestQueue'[1]

\* the load of the latest start has not resolved, and the run was not quit
FirstLoadPending ==
  /\ activeTestQueue # <<>>
  /\ \E r \in pendingLoads : r.caller = "start" /\ r.id = loadCount

\* what holds while the first load of a run is pending
AwaitingFirstLoad ==
  /\ phase = "instructions"
  /\ isLoading
  /\ questions = <<>>
  /\ activeTestQueue \in Queues
  /\ currentCategoryIndex = 0
  /\ responses = <<>>

\* C21: a start enters instructions at once with isLoading set, questions and
\* responses empty, the queue of the run and currentCategoryIndex = 0, and
\* this holds in every state until the load of the start resolves (the run
\* not being quit).
C21_StartAwaitsLoad ==
  /\ [][StartStep => StartEffect]_vars
  /\ [](FirstLoadPending => AwaitingFirstLoad)

\* the requests sent to the collaborator and not yet answered
Outstanding == {r \in pendingLoads : r.sent}

\* C22: at most one section load request is outstanding at any time.
C22_OneLoadOutstanding == Cardinality(Outstanding) <= 1

\* C23: in the test phase currentCategoryIndex < length(activeTestQueue) and
\* currentQuestionIndex < length(questions).
C23_TestIndexesInRange ==
  phase = "test" =>
    /\ currentCategoryIndex < Len(activeTestQueue)
    /\ currentQuestionIndex < Len(questions)

\* the step is a restart that removes the entries of the current category only
RestartStrips ==
  /\ RestartConfirmed
  /\ responses' = SelectSeq(responses, LAMBDA r : r.category # currentCategoryName)

\* the step is a quit that removes all entries
QuitClears == QuitConfirmed /\ responses' = <<>>

\* C24 as stated: the length of responses decreases only by a restart, which
\* removes the entries of the current category only, or by a quit, which
\* removes all entries.
C24_LedgerShrinksByRestartOrQuit ==
  [][Len(responses') < Len(responses) => RestartStrips \/ QuitClears]_vars

\* C24 amended: the length of responses decreases only by a restart (entries
\* of the current category only), by a quit (all entries) or by the start of
\* a new run (all entries).
C24_LedgerShrinksByRestartQuitOrStart ==
  [][Len(responses') < Len(responses) =>
       \/ RestartStrips
       \/ QuitClears
       \/ StartStep /\ responses' = <<>>]_vars

\* C24 witness: a second run was started over the ledger of a completed one
C24_Witness ==
  /\ startCount = 2
  /\ phase = "instructions"
  /\ Len(history) = 1
  /\ history[1].totalQuestions = QUESTIONS_PER_CATEGORY
  /\ responses = <<>>

\* this step enters the analysis phase
EntersAnalysis == phase # "analysis" /\ phase' = "analysis"

\* C25: the list handed to analyzeResults and used for the record is the
\* ledger with the answer to the final question appended, and it is the
\* responses of the state that enters the analysis phase.
C25_AnalysisGetsFullLedger ==
  [][/\ EntersAnalysis =>
          /\ \E closure \in pendingAnalyses' \ pendingAnalyses :
               closure.finalResponses = responses'
          /\ Len(responses') = Len(responses) + 1
          /\ SubSeq(responses', 1, Len(responses)) = responses
          /\ LastResponse.questionId = currentQuestion.id
     /\ \A closure \in pendingAnalyses :
          (AnalysisSettles(closure) /\ history' # history) =>
            history'[1].totalQuestions = Len(closure.finalResponses)]_vars

\* C25 witness: a run is awaiting its analysis with the whole section in the
\* list handed over
C25_Witness ==
  /\ phase = "analysis"
  /\ \E closure \in pendingAnalyses :
       /\ Len(closure.finalResponses) = QUESTIONS_PER_CATEGORY
       /\ closure.finalResponses = responses

\* the number of correct entries of a ledger
CorrectCount(ledger) == Cardinality({i \in 1..Len(ledger) : ledger[i].isCorrect})

\* score is 100 * correct / total rounded to the nearest integer, halves up
IsRoundedPercent(score, correct, total) ==
  /\ total > 0
  /\ 2 * total * score - total <= 200 * correct
  /\ 200 * correct < 2 * total * score + total

\* this step settles the analysis of closure and records the run
RunRecorded(closure) == AnalysisSettles(closure) /\ history' # history

C27_NoEmptyLedgerDivision ==
  /\ \A closure \in pendingAnalyses : Len(closure.finalResponses) >= 1
  /\ AnalysisView => Len(responses) >= 1 /\ accuracy # NaN

\* C27 witness: the results view of a run of a single answered question
C27_Witness == AnalysisView /\ Mounted /\ Len(responses) = 1 /\ history # <<>>

\* C28: the history is append-only: whenever it changes, one record was put
\* in front of it and every earlier record is kept, unchanged and in place.
C28_HistoryAppendOnly ==
  [][history' # history =>
       /\ Len(history') = Len(history) + 1
       /\ \A i \in 1..Len(history) : history'[i + 1] = history[i]]_vars

\* C29: the record of a completed run has mode Full exactly when the queue
\* of the run has more than one category, and Practice otherwise.
C29_ModeFollowsQueue ==
  [][/\ EntersAnalysis =>
          \A closure \in pendingAnalyses' \ pendingAnalyses :
            closure.isFull = (Len(activeTestQueue) > 1)
     /\ \A closure \in pendingAnalyses :
          RunRecorded(closure) =>
            history'[1].mode = IF closure.isFull THEN "Full" ELSE "Practice"]_vars

\* C29 witness: a full assessment was completed and recorded
C29_Witness ==
  /\ Len(history) = 1
  /\ history[1].mode = "Full"
  /\ activeTestQueue = FULL_ASSESSMENT_ORDER
  /\ phase = "analysis"
  /\ pendingAnalyses = {}

\* C30: activeTestQueue changes only by the start of a run and by a quit: no
\* answer, timeout, tick, load completion or failure, dismissal or restart
\* changes it.
C30_QueueFixedDuringRun ==
  [][activeTestQueue' # activeTestQueue => StartStep \/ QuitConfirmed]_vars

\* C30 witness: the second section of a full assessment was restarted and
\* is under test
C30_Witness ==
  /\ phase = "test"
  /\ activeTestQueue = FULL_ASSESSMENT_ORDER
  /\ currentCategoryIndex = 1
  /\ loadCount = 3
  /\ Len(responses) = QUESTIONS_PER_CATEGORY + 1

\* C31: the history phase is entered only from intro and left only to
\* intro: no step leads from instructions, test or analysis to history, and
\* from history no step, pending load or analysis included, leads anywhere
\* but intro.
C31_HistoryOnlyFromAndToIntro ==
  [][/\ (phase' = "history" /\ phase # "history") => phase = "intro"
     /\ (phase = "history" /\ phase' # "history") => phase' = "intro"]_vars

\* C31 witness: the history view is open while a load and an analysis are
\* still pending
C31_Witness ==
  phase = "history" /\ pendingLoads # {} /\ pendingAnalyses # {}

\* C32: questions is empty whenever the phase is intro, history or analysis.
C32_QuestionsOnlyInSection ==
  phase \in {"intro", "history", "analysis"} => questions = <<>>

\* C33: without a credential no request is sent to either collaborator:
\* every section load fails, the load the session waits for takes it back to
\* intro with the alert, and every analysis settles with the placeholder.
C33_NoCredentialFailsFast ==
  [][~apiKey =>
       /\ Outstanding' = {}
       /\ \A closure \in pendingAnalyses' : ~closure.sent
       /\ \A r \in pendingLoads :
            r \notin pendingLoads' =>
              /\ alertShown'
              /\ ~Superseded(r) => phase' = "intro" /\ ~isLoading'
       /\ \A closure \in pendingAnalyses :
            AnalysisSettles(closure) => analysis' = getMockAnalysis]_vars

\* C33 witness: without a credential a load has failed and an analysis has
\* settled with the placeholder
C33_Witness ==
  /\ ~apiKey
  /\ loadCount >= 1
  /\ pendingLoads = {}
  /\ analysis = MockAnalysis
  /\ history # <<>>

\* C34: every question of a batch committed by a load carries the requested
\* category and a time limit of 5 seconds, and the ids of the batch are
\* pairwise distinct.
C34_BatchShape ==
  [][\A r \in pendingLoads :
       CommitsLoad(r) =>
         /\ \A i \in 1..Len(questions') :
              /\ questions'[i].category = r.category
              /\ questions'[i].timeLimitSeconds = 5
         /\ \A i, j \in 1..Len(questions') :
              questions'[i].id = questions'[j].id => i = j]_vars

\* C34 witness: a batch of more than one question has been committed
C34_Witness ==
  /\ Len(questions) >= 2
  /\ phase = "instructions"
  /\ ~isLoading

\* C35: an accepted answer to a question that is not the last of its section
\* increments currentQuestionIndex by one, sets timeLeft to the next
\* question's limit, clears the timed-out flag, resets reasoningStep to
\* statement, and leaves phase, currentCategoryIndex, activeTestQueue and
\* questions unchanged.
C35_NextQuestionWithinSection ==
  [][(/\ phase = "test"
      /\ Len(responses') > Len(responses)
      /\ currentQuestionIndex + 1 < Len(questions)) =>
       /\ currentQuestionIndex' = currentQuestionIndex + 1
       /\ timeLeft' = questions[currentQuestionIndex + 2].timeLimitSeconds
       /\ ~hasTimedOut'
       /\ reasoningStep' = "statement"
       /\ phase' = phase
       /\ currentCategoryIndex' = currentCategoryIndex
       /\ activeTestQueue' = activeTestQueue
       /\ questions' = questions]_vars

\* C35 witness: the first question of a Reasoning section was answered and
\* the second is armed, showing its statement
C35_Witness ==
  /\ phase = "test"
  /\ currentCategoryName = REASONING
  /\ currentQuestionIndex = 1
  /\ Len(responses) = 1
  /\ reasoningStep = "statement"
  /\ timeLeft = TimeLimitSeconds
  /\ ~hasTimedOut

\* this step arms the countdown of a question: the next question after an
\* accepted answer, or the first question of a section on dismissing its
\* instructions
ArmsQuestion ==
  /\ phase' = "test"
  /\ ~hasTimedOut'
  /\ timeLeft' = questions'[currentQuestionIndex' + 1].timeLimitSeconds
  /\ \/ /\ phase = "test"
        /\ Len(responses') = Len(responses) + 1
        /\ currentQuestionIndex' = currentQuestionIndex + 1
     \/ /\ phase = "instructions"
        /\ currentQuestionIndex' = 0

\* C36: once a question has timed out the countdown stays stopped: timeLeft
\* is 0 and no tick is scheduled, and both stay so until a step arms the next
\* question after an accepted answer or the first question of a section.
C36_TimedOutStaysStopped ==
  /\ [](hasTimedOut => timeLeft = 0 /\ timers = {})
  /\ [][hasTimedOut =>
          \/ hasTimedOut' /\ timeLeft' = 0 /\ timers' = {}
          \/ ArmsQuestion]_vars

\* C36 witness: a question timed out, its flash ended, and it is still
\* waiting for its answer with the countdown stopped
C36_Witness ==
  /\ phase = "test"
  /\ hasTimedOut
  /\ ~isTimeoutFlash
  /\ ~isLoading
  /\ timeLeft = 0
  /\ timers = {}
  /\ currentQuestionIndex = 1

\* C37: in every reachable state timeLeft is between 0 and the time limit of
\* 5 seconds, and a tick is pending only while timeLeft is positive, so no
\* tick takes timeLeft below 0.
C37_TimeLeftInRange ==
  /\ 0 <= timeLeft
  /\ timeLeft <= 5
  /\ timers # {} => timeLeft > 0

\* C37 witness: the countdown of a section's second question has just run
\* from the limit down to 0
C37_Witness ==
  /\ phase = "test"
  /\ currentQuestionIndex = 1
  /\ timeLeft = 0
  /\ isTimeoutFlash
  /\ buzzes = 1

\* C38: the timeout flash is transient: whenever isTimeoutFlash is set, a
\* state with isTimeoutFlash = false is eventually reached, whatever answer
\* attempts, quits and restarts happen meanwhile.
C38_FlashIsTransient == isTimeoutFlash ~> ~isTimeoutFlash

\* C38 witness: the run was quit while the flash of a timeout was on
C38_Witness ==
  /\ isTimeoutFlash
  /\ hasTimedOut
  /\ phase = "intro"
  /\ responses = <<>>

\* C39: a started run whose loads all succeed with a non-empty batch, and
\* whose user keeps dismissing, revealing and answering without quitting or
\* restarting, eventually reaches the analysis phase.
C39_RunCompletes == (startCount = 1) ~> (phase = "analysis")

\* C39 witness: a full assessment has run through all its sections to the
\* analysis phase, one of its questions having timed out on the way
C39_Witness ==
  /\ phase = "analysis"
  /\ Len(activeTestQueue) = Len(FULL_ASSESSMENT_ORDER)
  /\ currentCategoryIndex = Len(FULL_ASSESSMENT_ORDER) - 1
  /\ hasTimedOut
  /\ Len(responses) >= Len(FULL_ASSESSMENT_ORDER)

\* C40: in SpatialView, for every pair and every random draw, the bottom
\* symbol is mirrored like the top symbol exactly when the pair is a match,
\* and the bottom rotation differs from the top rotation by 90 to 269 degrees
\* modulo 360, so the two rotations are never equal.
C40_SpatialPairConfigs ==
  /\ Len(pairConfigs) = Len(pairs)
  /\ \A i \in 1..Len(pairConfigs) :
       LET config == pairConfigs[i]
       IN  /\ (config.isBottomMirrored = config.isTopMirrored) <=> pairs[i]
           /\ (config.compRot + 360 - config.baseRot) % 360 >= 90
           /\ (config.compRot + 360 - config.baseRot) % 360 <= 269
           /\ config.compRot # config.baseRot

\* C40 witness: a match and a mirror are rendered, the mirror's bottom
\* rotation having wrapped around 360
C40_Witness ==
  /\ Len(pairs) = 2
  /\ pairs[1]
  /\ ~pairs[2]
  /\ pairConfigs[2].isTopMirrored
  /\ pairConfigs[2].compRot < pairConfigs[2].baseRot

====
